---- MODULE Spec2Model ----
(***************************************************************************)
(* A model of genIAE2ETest.py: the configuration resolver                  *)
(* (build_llm_settings), the step reconciliation routine                   *)
(* (map_extracted_data_to_steps) and the run loop of main().               *)
(*                                                                         *)
(* Python dicts are functions whose DOMAIN is the set of keys present, so  *)
(* that an absent key and a key bound to an empty list are different       *)
(* values.  Python None is the string None; os.getenv and dict.get are     *)
(* total functions that yield None for a name that is not set.             *)
(***************************************************************************)
EXTENDS Integers, Sequences, FiniteSets, TLC

VARIABLES
    pc,                 \* position of main() ("idle" when main is not running)
    args,               \* argparse.Namespace returned by parse_arguments()
    env,                \* os.environ as seen by os.getenv
    config,             \* dict returned by load_config()
    llm_settings,       \* dict returned by build_llm_settings()
    error,              \* class of the exception that ended the run, or None
    arquivo,            \* index of the test-case file being processed
    test_case_example,  \* json.loads(refinedTestCase): the decomposition
    test_case_json1,    \* pre-refinement TestCase
    test_case_json2,    \* post-refinement TestCase
    n,                  \* index of the module being processed (1-based)
    dispatcher,         \* identity of the current MemoryAdaptiveDispatcher: the
                        \* loop iteration <<arquivo, n>> that constructed it
    instruction_2,      \* module interpolated into llm_strategy_2.instruction
    result,             \* the crawl result being consumed
    calls,              \* outbound calls issued for the current test-case file
    files,              \* artifacts written for the current test-case file
    mapArg,             \* value of the argument when map_extracted_data_to_steps was first called
    mapRet,             \* the module object handed to / returned by the routine
    mapCalls            \* number of calls of the routine made on mapRet

vars == <<pc, args, env, config, llm_settings, error, arquivo,
          test_case_example, test_case_json1, test_case_json2, n, dispatcher,
          instruction_2, result, calls, files, mapArg, mapRet, mapCalls>>

cfgVars == <<args, env, config, llm_settings, error>>
runVars == <<arquivo, test_case_example, test_case_json1, test_case_json2, n,
             dispatcher, instruction_2, result, calls, files>>
mapVars == <<mapArg, mapRet, mapCalls>>

----------------------------------------------------------------------------
(* Bounds of the model.                                                    *)

MaxSteps == 2       \* steps of a module handed to the reconciliation routine
MaxItems == 3       \* elements of a flat extracted_data list
MaxCalls == 2       \* consecutive calls of the routine on one module
MaxModules == 2     \* modules of a decomposed test case
MaxFiles == 2       \* files in the TestCaseExamples folder

----------------------------------------------------------------------------
(* Python values.                                                          *)

None == "None"

\* Truthiness of an Optional[str]: None and "" are falsy.
Truthy(v) == v # None /\ v # ""

\* a or b or c ...: the first truthy operand, else the last operand.
RECURSIVE Or(_)
Or(vs) == IF Len(vs) = 1 \/ Truthy(Head(vs)) THEN Head(vs) ELSE Or(Tail(vs))

\* d[k] = v
Put(d, k, v) == [f \in DOMAIN d \cup {k} |-> IF f = k THEN v ELSE d[f]]

\* d.pop(k, None), for the dict that is left
Pop(d, k) == [f \in DOMAIN d \ {k} |-> d[f]]

\* d.get(k, default)
Get(d, k, default) == IF k \in DOMAIN d THEN d[k] ELSE default

\* All sequences over S of length lo..hi.
SeqsBetween(S, lo, hi) == UNION {[1..k -> S] : k \in lo..hi}

----------------------------------------------------------------------------
(* map_extracted_data_to_steps                                             *)

\* Mutant: the element is appended as it is, step_name included.
Projected_Whole(data) == data

\* The dict literal appended to matched_data.
Projected(data) ==
    [type                |-> data["type"],
     request_description |-> data["request_description"],
     identifier_type     |-> data["identifier_type"],
     identifier_tracking |-> data["identifier_tracking"]]

\* Mutant: the inner loop breaks at the first match.
ScanItems_Break(extracted_items, step, idx, acc) ==
    LET hits == {i \in idx..Len(extracted_items) :
                    Get(extracted_items[i], "step_name", None) = Get(step, "step", None)}
        first == CHOOSE i \in hits : \A j \in hits : i <= j
    IN  IF hits = {} THEN acc
        ELSE [matched_data    |-> Append(acc.matched_data, Projected(extracted_items[first])),
              matched_indices |-> acc.matched_indices \cup {first}]

\* The inner loop: for idx, data in enumerate(extracted_items).
\* acc carries matched_data and matched_indices.
RECURSIVE ScanItems(_, _, _, _)
ScanItems(extracted_items, step, idx, acc) ==
    IF idx > Len(extracted_items) THEN acc
    ELSE ScanItems(extracted_items, step, idx + 1,
            IF Get(extracted_items[idx], "step_name", None) = Get(step, "step", None)
            THEN [matched_data    |-> Append(acc.matched_data,
                                             Projected(extracted_items[idx])),
                  matched_indices |-> acc.matched_indices \cup {idx}]
            ELSE acc)

\* Mutant: the assignment is made whether or not anything matched.
AssignMatched_Always(step, matched_data) == Put(step, "extracted_data", matched_data)

\* Mutant: the matches are appended to what the step holds.
AssignMatched_Extend(step, matched_data) ==
    IF matched_data # <<>>
    THEN Put(step, "extracted_data", Get(step, "extracted_data", <<>>) \o matched_data)
    ELSE step

\* if matched_data: step["extracted_data"] = matched_data
AssignMatched(step, matched_data) ==
    IF matched_data # <<>> THEN Put(step, "extracted_data", matched_data) ELSE step

\* Mutant: the loop rebuilds the step list from the steps that matched.
ScanSteps_DropUnmatched(extracted_items, steps, k, matched_indices) ==
    LET hit(step) == \E i \in 1..Len(extracted_items) :
                        Get(extracted_items[i], "step_name", None) = Get(step, "step", None)
        kept == SelectSeq(steps, hit)
    IN  [steps |-> [j \in 1..Len(kept) |->
                       AssignMatched(kept[j],
                           ScanItems(extracted_items, kept[j], 1,
                               [matched_data |-> <<>>, matched_indices |-> {}]).matched_data)],
         matched_indices |-> {i \in 1..Len(extracted_items) :
                                 \E j \in 1..Len(steps) :
                                     Get(extracted_items[i], "step_name", None)
                                         = Get(steps[j], "step", None)}]

\* Mutant: matched_indices counts a match once per step that received it.
ScanSteps_CountPerStep(extracted_items, steps, k, matched_indices) ==
    [steps |-> [j \in 1..Len(steps) |->
                   AssignMatched(steps[j],
                       ScanItems(extracted_items, steps[j], 1,
                           [matched_data |-> <<>>, matched_indices |-> {}]).matched_data)],
     matched_indices |-> {p \in (1..Len(steps)) \X (1..Len(extracted_items)) :
                             Get(extracted_items[p[2]], "step_name", None)
                                 = Get(steps[p[1]], "step", None)}]

\* The outer loop: for step in module.get("execution_steps", []).
\* Steps 1..k-1 are done; yields the steps and the matched indices.
RECURSIVE ScanSteps(_, _, _, _)
ScanSteps(extracted_items, steps, k, matched_indices) ==
    IF k > Len(steps) THEN [steps |-> steps, matched_indices |-> matched_indices]
    ELSE LET m == ScanItems(extracted_items, steps[k], 1,
                            [matched_data |-> <<>>, matched_indices |-> matched_indices])
         IN  ScanSteps(extracted_items,
                       [steps EXCEPT ![k] = AssignMatched(steps[k], m.matched_data)],
                       k + 1, m.matched_indices)

\* Mutant: a fully matched flat list is emptied instead of popped.
PopIfAllMatched_KeepEmpty(module, matched_indices, extracted_items) ==
    IF Cardinality(matched_indices) = Len(extracted_items)
    THEN Put(module, "extracted_data", <<>>)
    ELSE module

\* Mutant: the stats fields are popped together with the flat list.
PopIfAllMatched_WithStats(module, matched_indices, extracted_items) ==
    IF Cardinality(matched_indices) = Len(extracted_items)
    THEN Pop(Pop(Pop(module, "extracted_data"), "token"), "dispatcher")
    ELSE module

\* Mutant: the flat list is popped whenever anything matched.
PopIfAllMatched_Any(module, matched_indices, extracted_items) ==
    IF matched_indices # {} \/ extracted_items = <<>>
    THEN Pop(module, "extracted_data")
    ELSE module

\* if len(matched_indices) == len(extracted_items): module.pop("extracted_data", None)
PopIfAllMatched(module, matched_indices, extracted_items) ==
    IF Cardinality(matched_indices) = Len(extracted_items)
    THEN Pop(module, "extracted_data")
    ELSE module

map_extracted_data_to_steps(module) ==
    LET extracted_items == Get(module, "extracted_data", <<>>)
        scanned == ScanSteps(extracted_items, Get(module, "execution_steps", <<>>),
                             1, {})
        stepped == IF "execution_steps" \in DOMAIN module
                   THEN Put(module, "execution_steps", scanned.steps)
                   ELSE module
    IN  PopIfAllMatched(stepped, scanned.matched_indices, extracted_items)

----------------------------------------------------------------------------
(* build_llm_settings                                                      *)

\* str.lower on the provider names that occur.
Lower(s) == CASE s = "OpenAI" -> "openai"
              [] s = "OLLAMA" -> "ollama"
              [] OTHER -> s

OLLAMA_DEFAULT_API_BASE == "https://suz-ai01.eisgroup.com/ollama/api/generate"
OLLAMA_DEFAULT_MODEL == "qwen2.5vl:32b"
OPENAI_DEFAULT_MODEL == "gpt-4o-mini"

\* Mutant: the properties file is consulted before the environment.
resolve_provider_FileFirst(a, e, c) ==
    Lower(Or(<<a["provider"], c["llmProvider"], e["LLM_PROVIDER"], "ollama">>))

\* provider = (args.provider or LLM_PROVIDER or llmProvider or "ollama").lower()
resolve_provider(a, e, c) ==
    Lower(Or(<<a["provider"], e["LLM_PROVIDER"], c["llmProvider"], "ollama">>))

\* openai.OpenAI(api_key=..., base_url=...): the handle keeps both.
OpenAIClient(api_key, api_base) == [api_key |-> api_key, base_url |-> api_base]

Settings(provider, api_key, model, client, llm_provider) ==
    [raised |-> None,
     value  |-> [provider |-> provider, api_key |-> api_key, model |-> model,
                 client |-> client, llm_provider |-> llm_provider]]

Raise(class) == [raised |-> class, value |-> <<>>]

\* Mutant: a missing Ollama key raises nothing and the key stays None.
ollama_settings_NoCheck(provider, a, e, c) ==
    LET api_key  == Or(<<a["api_key"], e["OLLAMA_API_KEY"], c["ollamaApiKey"]>>)
        api_base == Or(<<a["api_base"], e["OLLAMA_API_BASE"], c["ollamaApiBase"],
                         OLLAMA_DEFAULT_API_BASE>>)
        model    == Or(<<a["model"], e["OLLAMA_MODEL"], c["ollamaModel"],
                         OLLAMA_DEFAULT_MODEL>>)
    IN  Settings(provider, api_key, model, OpenAIClient(api_key, api_base),
                 "ollama/" \o model)

\* The branch taken when provider == "ollama".
ollama_settings(provider, a, e, c) ==
    LET api_key  == Or(<<a["api_key"], e["OLLAMA_API_KEY"], c["ollamaApiKey"]>>)
        api_base == Or(<<a["api_base"], e["OLLAMA_API_BASE"], c["ollamaApiBase"],
                         OLLAMA_DEFAULT_API_BASE>>)
        model    == Or(<<a["model"], e["OLLAMA_MODEL"], c["ollamaModel"],
                         OLLAMA_DEFAULT_MODEL>>)
    IN  IF ~Truthy(api_key) THEN Raise("RuntimeError")
        ELSE Settings(provider, api_key, model, OpenAIClient(api_key, api_base),
                      "ollama/" \o model)

\* The else branch.
openai_settings(provider, a, e, c) ==
    LET api_key  == Or(<<a["api_key"], e["OPENAI_API_KEY"], c["openaiApiKey"]>>)
        api_base == Or(<<a["api_base"], e["OPENAI_BASE_URL"], c["openaiBaseUrl"], None>>)
        model    == Or(<<a["model"], e["OPENAI_MODEL"], c["openaiModel"],
                         OPENAI_DEFAULT_MODEL>>)
    IN  IF ~Truthy(api_key) THEN Raise("ValueError")
        ELSE Settings(provider, api_key, model, OpenAIClient(api_key, api_base),
                      "openai/" \o model)

build_llm_settings(a, e, c) ==
    LET provider == resolve_provider(a, e, c)
    IN  IF provider = "ollama" THEN ollama_settings(provider, a, e, c)
        ELSE openai_settings(provider, a, e, c)

----------------------------------------------------------------------------
(* Inputs of the configuration resolver.                                   *)

\* parse_arguments(): --provider is restricted to the two choices.
ArgsSpace ==
    [provider : {None, "openai", "ollama"},
     api_key  : {None, "cli-key"},
     api_base : {None, "https://cli-base"},
     model    : {None, "cli-model"}]

EnvSpace ==
    [LLM_PROVIDER    : {None, "", "OpenAI", "ollama", "azure"},
     OPENAI_API_KEY  : {None, "", "sk-test"},
     OLLAMA_API_KEY  : {None, "env-ollama-key"},
     OPENAI_BASE_URL : {None, "https://env-openai"},
     OLLAMA_API_BASE : {None, "https://env-ollama"},
     OPENAI_MODEL    : {None, "env-openai-model"},
     OLLAMA_MODEL    : {None, "env-ollama-model"}]

\* config.properties files: a provider line or none, and the openai keys,
\* the ollama keys, both or neither.
PropertiesFile(llmProvider, openai, ollama) ==
    [llmProvider   |-> llmProvider,
     openaiApiKey  |-> IF openai THEN "file-openai-key" ELSE None,
     openaiBaseUrl |-> IF openai THEN "https://file-openai" ELSE None,
     openaiModel   |-> IF openai THEN "file-openai-model" ELSE None,
     ollamaApiKey  |-> IF ollama THEN "file-ollama-key" ELSE None,
     ollamaApiBase |-> IF ollama THEN "https://file-ollama" ELSE None,
     ollamaModel   |-> IF ollama THEN "file-ollama-model" ELSE None]

ConfigSpace ==
    {PropertiesFile(p, oa, ol) : p \in {None, "openai", "ollama"}, oa, ol \in BOOLEAN}

----------------------------------------------------------------------------
(* Inputs of the reconciliation routine.                                   *)

StepTexts == {"A", "B"}
StepNames == StepTexts \cup {"Z"}       \* "Z" names no step
Trackings == {"//x1", "//x2"}

\* An ExtractedElement as json.loads yields it.
Element(step_name, tracking) ==
    [type                |-> "input",
     request_description |-> "desc",
     identifier_type     |-> "XPath",
     identifier_tracking |-> tracking,
     step_name           |-> step_name]

Elements == {Element(s, t) : s \in StepNames, t \in Trackings}

\* An ExecutionStep as model_dump_json yields it: both keys are present.
Step(text, extracted) == [step |-> text, extracted_data |-> extracted]

\* What a step may hold before the routine runs: nothing, or elements of
\* an earlier reconciliation.
EarlierData == {<<>>, <<Projected(Element("A", "//x0"))>>}

\* A step handed to the routine may also lack the extracted_data key.
InputSteps == {Step(t, d) : t \in StepTexts, d \in EarlierData}
              \cup {[step |-> t] : t \in StepTexts}

token_data == [completion_tokens |-> "c", prompt_tokens |-> "p", total_tokens |-> "t",
               completion_tokens_details |-> None, prompt_tokens_details |-> None]

dispatcher_data == [memory_usage_MB |-> "m", peak_memory_MB |-> "pm",
                    start_time |-> "t0", end_time |-> "t1", duration_seconds |-> "d"]

BareModule(url, steps) ==
    [url |-> url, purpose |-> "purpose of " \o url, execution_steps |-> steps]

\* The three keys main() writes when a crawl succeeds.
WithCrawlData(module, extracted_content) ==
    Put(Put(Put(module, "extracted_data", extracted_content),
            "token", token_data),
        "dispatcher", dispatcher_data)

InputModules ==
    LET bare == {BareModule("https://u1", s) : s \in SeqsBetween(InputSteps, 0, MaxSteps)}
    IN  bare \cup {WithCrawlData(m, items) :
                      m \in bare, items \in SeqsBetween(Elements, 0, MaxItems)}

----------------------------------------------------------------------------
(* Idle values of the variables a specification does not use.              *)

CfgIdle == /\ args = <<>> /\ env = <<>> /\ config = <<>>
           /\ llm_settings = <<>> /\ error = None

RunIdle == /\ arquivo = 0 /\ test_case_example = <<>>
           /\ test_case_json1 = <<>> /\ test_case_json2 = <<>>
           /\ n = 0 /\ dispatcher = <<>>
           /\ instruction_2 = <<>> /\ result = <<>>
           /\ calls = <<>> /\ files = <<>>

MapIdle == mapArg = <<>> /\ mapRet = <<>> /\ mapCalls = 0

----------------------------------------------------------------------------
(* The reconciliation routine on its own: a caller holds a module and      *)
(* calls the routine on it, up to MaxCalls times.                          *)

InitMap == /\ pc = "idle" /\ CfgIdle /\ RunIdle
           /\ mapArg \in InputModules
           /\ mapRet = mapArg
           /\ mapCalls = 0

CallMap == /\ pc = "idle"
           /\ mapCalls < MaxCalls
           /\ mapRet' = map_extracted_data_to_steps(mapRet)
           /\ mapCalls' = mapCalls + 1
           /\ UNCHANGED <<pc, cfgVars, runVars, mapArg>>

NextMap == CallMap

SpecMap == InitMap /\ [][NextMap]_vars

----------------------------------------------------------------------------
(* Reconciliation stated without the loops, for the claims below.          *)

ItemsOf(module) == Get(module, "extracted_data", <<>>)
StepsOf(module) == module["execution_steps"]

\* element i of the flat list names step k
Names(module, i, k) == ItemsOf(module)[i]["step_name"] = StepsOf(module)[k]["step"]

\* indices of the flat-list elements that name some step
MatchedElements(module) ==
    {i \in 1..Len(ItemsOf(module)) : \E k \in 1..Len(StepsOf(module)) : Names(module, i, k)}

\* (step, element) pairs in which the element names the step
MatchedPairs(module) ==
    {p \in (1..Len(StepsOf(module))) \X (1..Len(ItemsOf(module))) : Names(module, p[2], p[1])}

DistinctStepTexts(module) ==
    \A j, k \in 1..Len(StepsOf(module)) :
        StepsOf(module)[j]["step"] = StepsOf(module)[k]["step"] => j = k

StartsEmpty(step) == "extracted_data" \in DOMAIN step /\ step["extracted_data"] = <<>>

StepsStartEmpty(module) ==
    \A k \in 1..Len(StepsOf(module)) : StartsEmpty(StepsOf(module)[k])

RECURSIVE SumOfLengths(_)
SumOfLengths(steps) ==
    IF steps = <<>> THEN 0
    ELSE Len(Head(steps)["extracted_data"]) + SumOfLengths(Tail(steps))

\* the flat-list elements that name step k, in flat-list order, without step_name
ExpectedFor(module, k) ==
    LET named == SelectSeq(ItemsOf(module),
                           LAMBDA e : e["step_name"] = StepsOf(module)[k]["step"])
    IN  [i \in 1..Len(named) |-> Pop(named[i], "step_name")]

AfterFirstCall == pc = "idle" /\ mapCalls = 1

\* C1 as stated: after map_extracted_data_to_steps(m), with steps that start
\* empty, the lengths of the steps' extracted_data add up to the number of
\* flat-list elements whose step_name is the text of some step.
C1_SumEqualsMatchedElements ==
    (AfterFirstCall /\ StepsStartEmpty(mapArg)) =>
        SumOfLengths(StepsOf(mapRet)) = Cardinality(MatchedElements(mapArg))

\* C1 amended: with steps that start empty, the lengths add up to the number
\* of (step, element) pairs in which the element's step_name is the step's
\* text; when the step texts of the module are pairwise distinct this is the
\* number of flat-list elements that name some step.
C1_SumEqualsMatchedPairs ==
    (AfterFirstCall /\ StepsStartEmpty(mapArg)) =>
        /\ SumOfLengths(StepsOf(mapRet)) = Cardinality(MatchedPairs(mapArg))
        /\ DistinctStepTexts(mapArg) =>
               SumOfLengths(StepsOf(mapRet)) = Cardinality(MatchedElements(mapArg))

\* C1 witness: two steps with different texts, a flat list with an element
\* that names a step and one that names none, and the routine has run.
C1_Witness ==
    /\ AfterFirstCall /\ StepsStartEmpty(mapArg)
    /\ Len(StepsOf(mapArg)) = 2 /\ DistinctStepTexts(mapArg)
    /\ Cardinality(MatchedElements(mapArg)) = 2
    /\ Len(ItemsOf(mapArg)) = 3
    /\ SumOfLengths(StepsOf(mapRet)) = 2

\* C2: after map_extracted_data_to_steps(m), if every flat-list element names
\* some step (also when the list is empty) the module has no extracted_data
\* key; if some element names no step, extracted_data is still present and
\* is the list it was.
C2_FlatListRemovedIffAllMatched ==
    AfterFirstCall =>
        IF Cardinality(MatchedElements(mapArg)) = Len(ItemsOf(mapArg))
        THEN "extracted_data" \notin DOMAIN mapRet
        ELSE /\ "extracted_data" \in DOMAIN mapRet
             /\ mapRet["extracted_data"] = mapArg["extracted_data"]

\* C2 witness: the scenario [A, Z] against the single step A: one of two
\* elements matched, the flat list is kept with the Z element in it.
C2_Witness ==
    /\ AfterFirstCall
    /\ Len(StepsOf(mapArg)) = 1 /\ StepsOf(mapArg)[1]["step"] = "A"
    /\ Len(ItemsOf(mapArg)) = 2
    /\ ItemsOf(mapArg)[1]["step_name"] = "A" /\ ItemsOf(mapArg)[2]["step_name"] = "Z"
    /\ Len(StepsOf(mapRet)[1]["extracted_data"]) = 1
    /\ "extracted_data" \in DOMAIN mapRet
    /\ mapRet["extracted_data"][2]["step_name"] = "Z"

\* C3: the elements the routine assigns to a step are exactly the flat-list
\* elements whose step_name is the step's text, each without its step_name,
\* in flat-list order: a step with a match holds exactly those, and a step
\* that started empty holds exactly those also when there are none.
C3_AssignedAreMatchedProjectedInOrder ==
    AfterFirstCall =>
        \A k \in 1..Len(StepsOf(mapArg)) :
            (ExpectedFor(mapArg, k) # <<>> \/ StartsEmpty(StepsOf(mapArg)[k]))
                => StepsOf(mapRet)[k]["extracted_data"] = ExpectedFor(mapArg, k)

\* C3 witness: the scenario [A, B, A] against the steps [A, B], with two
\* different A elements: step A received both in flat-list order, step B one.
C3_Witness ==
    /\ AfterFirstCall
    /\ Len(StepsOf(mapArg)) = 2
    /\ StepsOf(mapArg)[1]["step"] = "A" /\ StepsOf(mapArg)[2]["step"] = "B"
    /\ Len(ItemsOf(mapArg)) = 3
    /\ ItemsOf(mapArg)[1] = Element("A", "//x2")
    /\ ItemsOf(mapArg)[2]["step_name"] = "B"
    /\ ItemsOf(mapArg)[3] = Element("A", "//x1")
    /\ Len(StepsOf(mapRet)[1]["extracted_data"]) = 2
    /\ StepsOf(mapRet)[1]["extracted_data"][1]["identifier_tracking"] = "//x2"
    /\ StepsOf(mapRet)[1]["extracted_data"][2]["identifier_tracking"] = "//x1"
    /\ Len(StepsOf(mapRet)[2]["extracted_data"]) = 1
    /\ "extracted_data" \notin DOMAIN mapRet

----------------------------------------------------------------------------
(* main(): configuration.                                                  *)

\* llm_settings = build_llm_settings(args); an exception ends the run.
Configure ==
    /\ pc = "start"
    /\ LET r == build_llm_settings(args, env, config)
       IN  IF r.raised # None
           THEN /\ pc' = "failed"
                /\ error' = r.raised
                /\ UNCHANGED llm_settings
           ELSE /\ pc' = "configured"
                /\ llm_settings' = r.value
                /\ UNCHANGED error
    /\ UNCHANGED <<args, env, config, runVars, mapVars>>

\* The resolver on its own, over every combination of the three sources.
InitSettings ==
    /\ pc = "start"
    /\ args \in ArgsSpace /\ env \in EnvSpace /\ config \in ConfigSpace
    /\ llm_settings = <<>> /\ error = None
    /\ RunIdle /\ MapIdle

NextSettings == Configure

SpecSettings == InitSettings /\ [][NextSettings]_vars

\* The first value of a precedence list that is neither None nor empty.
FirstNonEmpty(vs) ==
    LET set == {i \in 1..Len(vs) : vs[i] # None /\ vs[i] # ""}
    IN  IF set = {} THEN None ELSE vs[CHOOSE i \in set : \A j \in set : i <= j]

ProviderSources == <<args["provider"], env["LLM_PROVIDER"], config["llmProvider"], "ollama">>

\* The sources of the key, the base URL and the model of the branch taken.
KeySources ==
    IF llm_settings["provider"] = "ollama"
    THEN <<args["api_key"], env["OLLAMA_API_KEY"], config["ollamaApiKey"]>>
    ELSE <<args["api_key"], env["OPENAI_API_KEY"], config["openaiApiKey"]>>

BaseSources ==
    IF llm_settings["provider"] = "ollama"
    THEN <<args["api_base"], env["OLLAMA_API_BASE"], config["ollamaApiBase"],
           "https://suz-ai01.eisgroup.com/ollama/api/generate">>
    ELSE <<args["api_base"], env["OPENAI_BASE_URL"], config["openaiBaseUrl"]>>

ModelSources ==
    IF llm_settings["provider"] = "ollama"
    THEN <<args["model"], env["OLLAMA_MODEL"], config["ollamaModel"], "qwen2.5vl:32b">>
    ELSE <<args["model"], env["OPENAI_MODEL"], config["openaiModel"], "gpt-4o-mini">>

KeyBaseModelByPrecedence ==
    /\ llm_settings["api_key"] = FirstNonEmpty(KeySources)
    /\ llm_settings["client"]["api_key"] = FirstNonEmpty(KeySources)
    /\ llm_settings["client"]["base_url"] = FirstNonEmpty(BaseSources)
    /\ llm_settings["model"] = FirstNonEmpty(ModelSources)

\* C5 as stated: provider, key, base URL and model are each the first
\* non-empty value in the order CLI flag, environment variable, properties
\* file, built-in default.
C5_FirstNonEmptyVerbatim ==
    pc = "configured" =>
        /\ llm_settings["provider"] = FirstNonEmpty(ProviderSources)
        /\ KeyBaseModelByPrecedence

\* C5 amended: the provider is the lower-cased first non-empty value in the
\* order CLI flag, LLM_PROVIDER, llmProvider, "ollama"; key, base URL and
\* model are the first non-empty value in the order CLI flag, environment
\* variable, properties file, built-in default of the branch taken (no
\* default for the key, none for the base URL of the OpenAI branch).
C5_LowerCasedFirstNonEmpty ==
    pc = "configured" =>
        /\ llm_settings["provider"] = Lower(FirstNonEmpty(ProviderSources))
        /\ KeyBaseModelByPrecedence

\* C5 witness: --provider openai, no --api-key, OPENAI_API_KEY=sk-test, and
\* a properties file that names the other provider and has its own key:
\* the resolver returned provider openai and key sk-test.
C5_Witness ==
    /\ pc = "configured"
    /\ args["provider"] = "openai" /\ args["api_key"] = None
    /\ env["OPENAI_API_KEY"] = "sk-test"
    /\ config["llmProvider"] = "ollama" /\ config["openaiApiKey"] = "file-openai-key"
    /\ llm_settings["provider"] = "openai" /\ llm_settings["api_key"] = "sk-test"

----------------------------------------------------------------------------
(* Inputs of a run of main().                                              *)

NoArgs == [provider |-> None, api_key |-> None, api_base |-> None, model |-> None]

NoEnv == [LLM_PROVIDER |-> None, OPENAI_API_KEY |-> None, OLLAMA_API_KEY |-> None,
          OPENAI_BASE_URL |-> None, OLLAMA_API_BASE |-> None,
          OPENAI_MODEL |-> None, OLLAMA_MODEL |-> None]

\* The command lines, environments and properties files a run is started
\* with: an OpenAI and an Ollama configuration with a key, and the two
\* without any key of the provider selected.
RunConfigs ==
    {[args |-> [NoArgs EXCEPT !["provider"] = "openai"],
      env |-> [NoEnv EXCEPT !["OPENAI_API_KEY"] = "sk-test"],
      config |-> PropertiesFile(None, FALSE, FALSE)],
     [args |-> NoArgs, env |-> NoEnv,
      config |-> PropertiesFile(None, FALSE, TRUE)],
     [args |-> [NoArgs EXCEPT !["provider"] = "openai"], env |-> NoEnv,
      config |-> PropertiesFile("ollama", FALSE, TRUE)],
     [args |-> NoArgs, env |-> NoEnv,
      config |-> PropertiesFile(None, TRUE, FALSE)]}

\* The step lists of a decomposed module.
ModuleStepLists == {<<Step("A", <<>>), Step("B", <<>>)>>}

ModuleUrl(i) == "https://u" \o ToString(i)

\* A TestCaseModel as model_dump_json / json.loads yield it: every step has
\* its extracted_data list, empty at this stage.
Decompositions ==
    {[testCase |-> "tc",
      modules  |-> [i \in 1..Len(steps) |-> BareModule(ModuleUrl(i), steps[i])]] :
        steps \in SeqsBetween(ModuleStepLists, 0, MaxModules)}

\* What result.extracted_content decodes to when a crawl succeeds: nothing,
\* the list [A, B, A] and the list [A, Z].
CrawlContents ==
    {<<>>,
     <<Element("A", "//x1"), Element("B", "//x1"), Element("A", "//x2")>>,
     <<Element("A", "//x1"), Element("Z", "//x1")>>}

\* A failed crawl carries no extracted content (the field is left out here).
CrawlResults ==
    {[success |-> FALSE]}
    \cup {[success |-> TRUE, extracted_content |-> c] : c \in CrawlContents}

----------------------------------------------------------------------------
(* main(): the run loop.                                                   *)

Init ==
    /\ pc = "start"
    /\ \E rc \in RunConfigs : args = rc.args /\ env = rc.env /\ config = rc.config
    /\ llm_settings = <<>> /\ error = None
    /\ RunIdle /\ MapIdle

\* for arquivo in exampleFolder.iterdir(): the folder has another file.
\* The names bound per file are dead here and are reset; calls and files
\* start over with the file's folder.
NextFile ==
    /\ pc \in {"configured", "file_done"}
    /\ arquivo < MaxFiles
    /\ arquivo' = arquivo + 1
    /\ pc' = "decompose"
    /\ test_case_example' = <<>> /\ test_case_json1' = <<>> /\ test_case_json2' = <<>>
    /\ n' = 0 /\ dispatcher' = <<>> /\ instruction_2' = <<>> /\ result' = <<>>
    /\ calls' = <<>> /\ files' = <<>>
    /\ UNCHANGED <<cfgVars, mapVars>>

\* The folder has no further file: main() returns and its names are gone.
Finish ==
    /\ pc \in {"configured", "file_done"}
    /\ pc' = "exit"
    /\ arquivo' = 0
    /\ test_case_example' = <<>> /\ test_case_json1' = <<>> /\ test_case_json2' = <<>>
    /\ n' = 0 /\ dispatcher' = <<>> /\ instruction_2' = <<>> /\ result' = <<>>
    /\ calls' = <<>> /\ files' = <<>>
    /\ UNCHANGED <<cfgVars, mapVars>>

\* The completion request of the decomposition stage: the structured parse
\* mode for provider "openai", the JSON-object mode otherwise.
DecompositionCall ==
    [op    |-> "chat",
     mode  |-> IF llm_settings["provider"] = "openai" THEN "parse" ELSE "create",
     model |-> llm_settings["model"]]

\* The model's answer validates: Refined<stem>.json is written and parsed
\* three times, into test_case_example, test_case_json1 and test_case_json2.
Decompose ==
    /\ pc = "decompose"
    /\ \E tc \in Decompositions :
        /\ test_case_example' = tc
        /\ test_case_json1' = tc
        /\ test_case_json2' = tc
        /\ files' = Put(files, "Refined.json", tc)
        /\ IF Len(tc["modules"]) = 0
           THEN pc' = "write1" /\ n' = n
           ELSE pc' = "extract" /\ n' = 1
    /\ calls' = Append(calls, DecompositionCall)
    /\ UNCHANGED <<cfgVars, arquivo, dispatcher, instruction_2, result, mapVars>>

\* The model's answer does not validate: the exception ends the run.
DecomposeFails ==
    /\ pc = "decompose"
    /\ calls' = Append(calls, DecompositionCall)
    /\ pc' = "failed"
    /\ error' = "ValidationError"
    /\ UNCHANGED <<args, env, config, llm_settings, arquivo, test_case_example,
                   test_case_json1, test_case_json2, n, dispatcher, instruction_2,
                   result, files, mapVars>>

\* dispatcher = MemoryAdaptiveDispatcher(), constructed in the module loop.
new_dispatcher(a, k) == <<a, k>>

\* Mutant: the refinement crawl constructs a dispatcher of its own.
refine_dispatcher_Fresh(current, a, k) == <<a, k, "refine">>

\* dispatcher=dispatcher in the refinement crawl.
refine_dispatcher(current, a, k) == current

\* Mutant: the refinement prompt interpolates the decomposed module.
refine_instruction_Unreconciled(tc1, example, k) == example["modules"][k]

\* {test_case_json1["modules"][n]} in the instruction of llm_strategy_2.
refine_instruction(tc1, example, k) == tc1["modules"][k]

\* The arun_many call with what it returned.
CrawlCall(pass, k, url, instruction, disp, r) ==
    [op |-> "crawl", pass |-> pass, module |-> k, url |-> url,
     instruction |-> instruction, dispatcher |-> disp,
     provider |-> llm_settings["llm_provider"], api_token |-> llm_settings["api_key"],
     response |-> r]

\* Mutant: token and dispatcher are written outside the success test.
store_result_StatsAlways(module, r) ==
    IF r["success"] THEN WithCrawlData(module, r["extracted_content"])
    ELSE Put(Put(module, "token", token_data), "dispatcher", dispatcher_data)

\* for result in result_N: if result.success: write extracted_data, token
\* and dispatcher to the module.
store_result(module, r) ==
    IF r["success"] THEN WithCrawlData(module, r["extracted_content"]) ELSE module

\* Lines 339-403: llm_strategy_1, a new dispatcher, and the extraction crawl.
Extract ==
    /\ pc = "extract"
    /\ dispatcher' = new_dispatcher(arquivo, n)
    /\ \E r \in CrawlResults :
        /\ result' = r
        /\ calls' = Append(calls,
                CrawlCall(1, n, test_case_json1["modules"][n]["url"],
                          test_case_example["modules"][n], dispatcher', r))
    /\ pc' = "store1"
    /\ UNCHANGED <<cfgVars, arquivo, test_case_example, test_case_json1,
                   test_case_json2, n, instruction_2, files, mapVars>>

\* Lines 405-428.
Store1 ==
    /\ pc = "store1"
    /\ test_case_json1' =
          [test_case_json1 EXCEPT !["modules"][n] = store_result(@, result)]
    /\ pc' = "map1"
    /\ UNCHANGED <<cfgVars, arquivo, test_case_example, test_case_json2, n,
                   dispatcher, instruction_2, result, calls, files, mapVars>>

\* Line 430.
Reconcile1 ==
    /\ pc = "map1"
    /\ test_case_json1' =
          [test_case_json1 EXCEPT !["modules"][n] = map_extracted_data_to_steps(@)]
    /\ pc' = "refine"
    /\ UNCHANGED <<cfgVars, arquivo, test_case_example, test_case_json2, n,
                   dispatcher, instruction_2, result, calls, files, mapVars>>

\* Lines 432-501: llm_strategy_2 and the refinement crawl.
Refine ==
    /\ pc = "refine"
    /\ instruction_2' = refine_instruction(test_case_json1, test_case_example, n)
    /\ \E r \in CrawlResults :
        /\ result' = r
        /\ calls' = Append(calls,
                CrawlCall(2, n, test_case_json1["modules"][n]["url"], instruction_2',
                          refine_dispatcher(dispatcher, arquivo, n), r))
    /\ pc' = "store2"
    /\ UNCHANGED <<cfgVars, arquivo, test_case_example, test_case_json1,
                   test_case_json2, n, dispatcher, files, mapVars>>

\* Mutant: the refinement result is stored into a copy of the pass-1 module.
Store2_OnPass1 ==
    /\ pc = "store2"
    /\ test_case_json2' =
          [test_case_json2 EXCEPT
              !["modules"][n] = store_result(test_case_json1["modules"][n], result)]
    /\ pc' = "map2"
    /\ UNCHANGED <<cfgVars, arquivo, test_case_example, test_case_json1, n,
                   dispatcher, instruction_2, result, calls, files, mapVars>>

\* Lines 503-526.
Store2 ==
    /\ pc = "store2"
    /\ test_case_json2' =
          [test_case_json2 EXCEPT !["modules"][n] = store_result(@, result)]
    /\ pc' = "map2"
    /\ UNCHANGED <<cfgVars, arquivo, test_case_example, test_case_json1, n,
                   dispatcher, instruction_2, result, calls, files, mapVars>>

\* Line 529, and the step of the module loop.
Reconcile2 ==
    /\ pc = "map2"
    /\ test_case_json2' =
          [test_case_json2 EXCEPT !["modules"][n] = map_extracted_data_to_steps(@)]
    /\ IF n < Len(test_case_example["modules"])
       THEN pc' = "extract" /\ n' = n + 1
       ELSE pc' = "write1" /\ n' = n
    /\ UNCHANGED <<cfgVars, arquivo, test_case_example, test_case_json1,
                   dispatcher, instruction_2, result, calls, files, mapVars>>

\* json.dump(test_case_json1, ...) to ExtractedData.json.
WriteExtracted ==
    /\ pc = "write1"
    /\ files' = Put(files, "ExtractedData.json", test_case_json1)
    /\ pc' = "write2"
    /\ UNCHANGED <<cfgVars, arquivo, test_case_example, test_case_json1,
                   test_case_json2, n, dispatcher, instruction_2, result, calls,
                   mapVars>>

\* json.dump(test_case_json2, ...) to RefinedExtractedData.json.
WriteRefined ==
    /\ pc = "write2"
    /\ files' = Put(files, "RefinedExtractedData.json", test_case_json2)
    /\ pc' = "plan"
    /\ UNCHANGED <<cfgVars, arquivo, test_case_example, test_case_json1,
                   test_case_json2, n, dispatcher, instruction_2, result, calls,
                   mapVars>>

\* The lines of the execution outline.
ElementLines(elements) ==
    [i \in 1..Len(elements) |->
        <<"Element", Get(elements[i], "type", ""),
          Get(elements[i], "request_description", ""),
          Get(elements[i], "identifier_type", ""),
          Get(elements[i], "identifier_tracking", "")>>]

RECURSIVE StepLines(_, _)
StepLines(steps, k) ==
    IF k > Len(steps) THEN <<>>
    ELSE <<<<"Step", k, Get(steps[k], "step", "")>>>>
         \o ElementLines(Get(steps[k], "extracted_data", <<>>))
         \o StepLines(steps, k + 1)

RECURSIVE ModuleLines(_, _)
ModuleLines(modules, i) ==
    IF i > Len(modules) THEN <<>>
    ELSE <<<<"Module", i, Get(modules[i], "url", "")>>,
           <<"Purpose", Get(modules[i], "purpose", "")>>>>
         \o StepLines(Get(modules[i], "execution_steps", <<>>), 1)
         \o ModuleLines(modules, i + 1)

RECURSIVE CountSteps(_)
CountSteps(modules) ==
    IF modules = <<>> THEN 0
    ELSE Len(Get(Head(modules), "execution_steps", <<>>)) + CountSteps(Tail(modules))

\* write_internal_execution_plan: reads the refined artifact back, writes
\* execution_plan.log and execution_summary.json.
WritePlan ==
    /\ pc = "plan"
    /\ LET test_case == files["RefinedExtractedData.json"]
           modules == Get(test_case, "modules", <<>>)
           lines == <<<<"Feature file", arquivo>>,
                      <<"Refined data", "RefinedExtractedData.json">>,
                      <<"Execution outline:">>>> \o ModuleLines(modules, 1)
           summary_payload == [feature_path |-> arquivo,
                               refined_data_path |-> "RefinedExtractedData.json",
                               modules |-> Len(modules),
                               steps |-> CountSteps(modules)]
       IN  files' = Put(Put(files, "execution_plan.log", lines),
                        "execution_summary.json", summary_payload)
    /\ pc' = "file_done"
    /\ UNCHANGED <<cfgVars, arquivo, test_case_example, test_case_json1,
                   test_case_json2, n, dispatcher, instruction_2, result, calls,
                   mapVars>>

Next ==
    \/ Configure \/ NextFile \/ Finish \/ Decompose \/ DecomposeFails
    \/ Extract \/ Store1 \/ Reconcile1 \/ Refine \/ Store2 \/ Reconcile2
    \/ WriteExtracted \/ WriteRefined \/ WritePlan

Spec == Init /\ [][Next]_vars

----------------------------------------------------------------------------
(* The run loop: what the claims below speak of.                           *)

\* The decomposition of the current file has been parsed.
Decomposed == "Refined.json" \in DOMAIN files

\* url, purpose and step texts of every module, in order.
Skeleton(test_case) ==
    [i \in 1..Len(test_case["modules"]) |->
        [url     |-> test_case["modules"][i]["url"],
         purpose |-> test_case["modules"][i]["purpose"],
         steps   |-> [k \in 1..Len(test_case["modules"][i]["execution_steps"]) |->
                         test_case["modules"][i]["execution_steps"][k]["step"]]]]

\* The crawl calls issued so far for the current file, in order.
Crawls == SelectSeq(calls, LAMBDA c : c["op"] = "crawl")

\* The crawl of a pass over module i among the crawls cs, once issued.
CrawledIn(cs, pass, i) == \E j \in 1..Len(cs) : cs[j]["pass"] = pass /\ cs[j]["module"] = i
CrawlIn(cs, pass, i) ==
    cs[CHOOSE j \in 1..Len(cs) : cs[j]["pass"] = pass /\ cs[j]["module"] = i]

Crawled(pass, i) == CrawledIn(Crawls, pass, i)
CrawlOf(pass, i) == CrawlIn(Crawls, pass, i)

\* The reconciliation that follows crawl c has run.
ReconciledAfter(c) ==
    \/ pc \in {"write1", "write2", "plan", "file_done"}
    \/ c["module"] < n
    \/ c["pass"] = 1 /\ pc \in {"refine", "store2", "map2"}

\* The TestCase that the pass fills.
TestCaseOf(pass) == IF pass = 1 THEN test_case_json1 ELSE test_case_json2

\* What a decomposed module is after a crawl result has been stored in it
\* and reconciled, stated without the loops.
Reconciled(module, r) ==
    IF ~r["success"] THEN module
    ELSE LET stored == [url |-> module["url"], purpose |-> module["purpose"],
                        execution_steps |-> module["execution_steps"],
                        extracted_data |-> r["extracted_content"],
                        token |-> token_data, dispatcher |-> dispatcher_data]
             steps == [k \in 1..Len(StepsOf(stored)) |->
                          LET expected == ExpectedFor(stored, k)
                          IN  IF expected # <<>>
                              THEN [step |-> StepsOf(stored)[k]["step"],
                                    extracted_data |-> expected]
                              ELSE StepsOf(stored)[k]]
         IN  IF Cardinality(MatchedElements(stored)) = Len(r["extracted_content"])
             THEN [url |-> module["url"], purpose |-> module["purpose"],
                   execution_steps |-> steps,
                   token |-> token_data, dispatcher |-> dispatcher_data]
             ELSE [stored EXCEPT !["execution_steps"] = steps]

ModuleCount == Len(test_case_example["modules"])

\* C4: modules and steps keep their order end to end: at every point of a
\* run the pre-refinement and the post-refinement TestCase, and the two
\* artifacts once written, have the modules (url, purpose) and within each
\* module the step texts of the decomposition, which itself never changes.
C4_ModuleAndStepOrderPreserved ==
    Decomposed =>
        /\ test_case_example = files["Refined.json"]
        /\ Skeleton(test_case_json1) = Skeleton(test_case_example)
        /\ Skeleton(test_case_json2) = Skeleton(test_case_example)
        /\ "ExtractedData.json" \in DOMAIN files =>
               Skeleton(files["ExtractedData.json"]) = Skeleton(test_case_example)
        /\ "RefinedExtractedData.json" \in DOMAIN files =>
               Skeleton(files["RefinedExtractedData.json"]) = Skeleton(test_case_example)

\* C4 witness: a test case of two modules, the first with the steps A, B,
\* has gone through both passes with crawls that returned [A, Z] (pass 1,
\* module 1) and [A, B, A] (pass 2, module 1), and both artifacts are written.
C4_Witness ==
    /\ pc = "file_done"
    /\ ModuleCount = 2
    /\ Len(test_case_example["modules"][1]["execution_steps"]) = 2
    /\ Len(test_case_example["modules"][2]["execution_steps"]) = 2
    /\ CrawlOf(1, 1)["response"]["success"]
    /\ Len(CrawlOf(1, 1)["response"]["extracted_content"]) = 2
    /\ CrawlOf(2, 1)["response"]["success"]
    /\ Len(CrawlOf(2, 1)["response"]["extracted_content"]) = 3
    /\ Len(files["RefinedExtractedData.json"]["modules"][1]["execution_steps"][1]["extracted_data"]) = 2
    /\ "extracted_data" \in DOMAIN files["ExtractedData.json"]["modules"][1]

\* The branch build_llm_settings takes, and whether that branch finds a key.
BranchIsOllama == Lower(FirstNonEmpty(ProviderSources)) = "ollama"

KeyUnresolvable ==
    FirstNonEmpty(IF BranchIsOllama
                  THEN <<args["api_key"], env["OLLAMA_API_KEY"], config["ollamaApiKey"]>>
                  ELSE <<args["api_key"], env["OPENAI_API_KEY"], config["openaiApiKey"]>>)
        = None

\* C6 as stated: with no key from the CLI flag, the environment or the
\* properties file, resolution fails with a ConfigurationError or
\* ValueError-class error before any LLM or crawl call.
C6_FailsWithValueErrorClass ==
    (pc # "start" /\ KeyUnresolvable) =>
        /\ pc = "failed"
        /\ error \in {"ConfigurationError", "ValueError"}
        /\ calls = <<>> /\ arquivo = 0

\* C6 amended: with no key from the CLI flag, the environment or the
\* properties file, resolution fails before any LLM or crawl call, with a
\* ValueError on the OpenAI branch and a RuntimeError on the Ollama branch.
C6_FailsBeforeAnyCall ==
    (pc # "start" /\ KeyUnresolvable) =>
        /\ pc = "failed"
        /\ error = (IF BranchIsOllama THEN "RuntimeError" ELSE "ValueError")
        /\ calls = <<>> /\ arquivo = 0 /\ llm_settings = <<>>

\* C6 witness: a run started with nothing but OpenAI keys in the properties
\* file resolves to Ollama, finds no Ollama key and has ended.
C6_Witness ==
    /\ pc = "failed" /\ error = "RuntimeError"
    /\ BranchIsOllama /\ KeyUnresolvable
    /\ config["openaiApiKey"] = "file-openai-key"
    /\ calls = <<>>

\* C7: when a crawl reports failure nothing is written to the module for
\* that pass, reconciliation leaves the module as the decomposition made it
\* (no extracted_data, token or dispatcher, steps unchanged), and the run
\* goes on: it has not ended with an error, it can always take its next
\* step, and when the file is done every module has had both crawls and
\* the artifacts are written.
C7_CrawlFailureTolerated ==
    LET cs == Crawls
    IN  (Decomposed /\ \E j \in 1..Len(cs) : ~cs[j]["response"]["success"]) =>
            /\ \A j \in 1..Len(cs) :
                  ~cs[j]["response"]["success"] =>
                      TestCaseOf(cs[j]["pass"])["modules"][cs[j]["module"]]
                          = test_case_example["modules"][cs[j]["module"]]
            /\ pc # "failed" /\ error = None
            /\ ENABLED Next
            /\ pc = "file_done" =>
                  /\ \A i \in 1..ModuleCount : CrawledIn(cs, 1, i) /\ CrawledIn(cs, 2, i)
                  /\ {"ExtractedData.json", "RefinedExtractedData.json",
                      "execution_plan.log", "execution_summary.json"} \subseteq DOMAIN files

\* C7 witness: of two modules the first had its extraction crawl fail and
\* its refinement crawl succeed, the second module had both crawls succeed
\* with elements, and the file is done.
C7_Witness ==
    /\ pc = "file_done"
    /\ ModuleCount = 2
    /\ ~CrawlOf(1, 1)["response"]["success"]
    /\ CrawlOf(2, 1)["response"]["success"]
    /\ CrawlOf(1, 2)["response"]["success"]
    /\ Len(CrawlOf(1, 2)["response"]["extracted_content"]) = 3
    /\ DOMAIN files["ExtractedData.json"]["modules"][1] = {"url", "purpose", "execution_steps"}
    /\ "token" \in DOMAIN files["ExtractedData.json"]["modules"][2]

\* C8: the stages of one test case come in a fixed order: the
\* decomposition call is first; the crawls follow module by module,
\* extraction then refinement; the extraction prompt holds the decomposed
\* module and the refinement prompt the reconciled pass-1 module; a module
\* of either TestCase is untouched before its crawl and reconciled before
\* the next module's extraction; the artifacts hold the reconciled modules
\* of a finished module loop; the plan and the summary exist only with the
\* refined artifact.
C8_StageOrder ==
    LET cs == Crawls
        decomposed(i) == test_case_example["modules"][i]
    IN  Decomposed =>
            /\ calls[1]["op"] = "chat" /\ Len(cs) = Len(calls) - 1
            /\ Len(cs) <= 2 * ModuleCount
            /\ \A j \in 1..Len(cs) :
                  /\ cs[j]["module"] = (j + 1) \div 2
                  /\ cs[j]["pass"] = 2 - (j % 2)
                  /\ cs[j]["url"] = decomposed(cs[j]["module"])["url"]
            /\ \A i \in 1..ModuleCount :
                  /\ CrawledIn(cs, 1, i) =>
                        CrawlIn(cs, 1, i)["instruction"] = decomposed(i)
                  /\ CrawledIn(cs, 2, i) =>
                        /\ CrawlIn(cs, 2, i)["instruction"]
                              = Reconciled(decomposed(i), CrawlIn(cs, 1, i)["response"])
                        /\ test_case_json1["modules"][i] = CrawlIn(cs, 2, i)["instruction"]
                  /\ ~CrawledIn(cs, 1, i) => test_case_json1["modules"][i] = decomposed(i)
                  /\ ~CrawledIn(cs, 2, i) => test_case_json2["modules"][i] = decomposed(i)
                  /\ CrawledIn(cs, 1, i + 1) =>
                        test_case_json2["modules"][i]
                            = Reconciled(decomposed(i), CrawlIn(cs, 2, i)["response"])
            /\ \A f \in {"ExtractedData.json", "RefinedExtractedData.json"} :
                  f \in DOMAIN files =>
                      /\ Len(cs) = 2 * ModuleCount
                      /\ Len(files[f]["modules"]) = ModuleCount
                      /\ \A i \in 1..ModuleCount :
                            files[f]["modules"][i]
                                = Reconciled(decomposed(i),
                                      CrawlIn(cs, IF f = "ExtractedData.json" THEN 1 ELSE 2,
                                              i)["response"])
            /\ \A f \in {"execution_plan.log", "execution_summary.json"} :
                  f \in DOMAIN files => "RefinedExtractedData.json" \in DOMAIN files

\* C8 witness: a test case of two modules is through all stages: the first
\* module's extraction returned [A, B, A], so its refinement prompt held
\* the step A with two elements, and the plan and the summary are written.
C8_Witness ==
    /\ pc = "file_done"
    /\ ModuleCount = 2
    /\ Len(Crawls) = 4
    /\ CrawlOf(1, 1)["response"]["success"]
    /\ Len(CrawlOf(1, 1)["response"]["extracted_content"]) = 3
    /\ Len(CrawlOf(2, 1)["instruction"]["execution_steps"][1]["extracted_data"]) = 2
    /\ "extracted_data" \notin DOMAIN CrawlOf(2, 1)["instruction"]
    /\ "execution_plan.log" \in DOMAIN files
    /\ files["execution_summary.json"]["modules"] = 2

\* C9 as stated: every crawl call of an attempt, extraction or refinement,
\* of whichever module, uses the same dispatcher object.
C9_OneDispatcherPerAttempt ==
    Decomposed =>
        \A j, k \in 1..Len(Crawls) : Crawls[j]["dispatcher"] = Crawls[k]["dispatcher"]

\* C9 amended: a dispatcher is constructed per module: the extraction and
\* the refinement crawl of one module use the same dispatcher object, and
\* crawls of different modules use different ones.
C9_OneDispatcherPerModule ==
    Decomposed =>
        \A j, k \in 1..Len(Crawls) :
            Crawls[j]["dispatcher"] = Crawls[k]["dispatcher"]
                <=> Crawls[j]["module"] = Crawls[k]["module"]

\* C9 witness: both crawls of two modules have been issued.
C9_Witness ==
    /\ Decomposed /\ ModuleCount = 2 /\ Len(Crawls) = 4
    /\ Crawls[1]["dispatcher"] = Crawls[2]["dispatcher"]
    /\ Crawls[3]["dispatcher"] = Crawls[4]["dispatcher"]
    /\ Crawls[2]["dispatcher"] # Crawls[3]["dispatcher"]

\* Crawl c succeeded and every element it returned names a step of its module.
AllAssigned(c) ==
    /\ c["response"]["success"]
    /\ \A i \in 1..Len(c["response"]["extracted_content"]) :
          \E k \in 1..Len(test_case_example["modules"][c["module"]]["execution_steps"]) :
              c["response"]["extracted_content"][i]["step_name"]
                  = test_case_example["modules"][c["module"]]["execution_steps"][k]["step"]

\* C10 as stated: when reconciliation assigns every element of the flat
\* list to a step, it removes extracted_data and the stats fields (token,
\* dispatcher) from the module.
C10_StatsRemovedWithFlatList ==
    Decomposed =>
        \A j \in 1..Len(Crawls) :
            (AllAssigned(Crawls[j]) /\ ReconciledAfter(Crawls[j])) =>
                DOMAIN TestCaseOf(Crawls[j]["pass"])["modules"][Crawls[j]["module"]]
                    \cap {"extracted_data", "token", "dispatcher"} = {}

\* C10 amended: when reconciliation assigns every element of the flat list
\* to a step, it removes extracted_data from the module; the stats fields
\* token and dispatcher written with it stay on the module.
C10_OnlyFlatListRemoved ==
    Decomposed =>
        \A j \in 1..Len(Crawls) :
            (AllAssigned(Crawls[j]) /\ ReconciledAfter(Crawls[j])) =>
                LET module == TestCaseOf(Crawls[j]["pass"])["modules"][Crawls[j]["module"]]
                IN  /\ DOMAIN module = {"url", "purpose", "execution_steps",
                                        "token", "dispatcher"}
                    /\ module["token"] = token_data
                    /\ module["dispatcher"] = dispatcher_data

\* C10 witness: the extraction of a module with the steps A, B returned
\* [A, B, A] and the module has been reconciled.
C10_Witness ==
    /\ pc = "refine"
    /\ Len(test_case_example["modules"][n]["execution_steps"]) = 2
    /\ result["success"] /\ Len(result["extracted_content"]) = 3
    /\ AllAssigned(Crawls[Len(Crawls)])
    /\ "extracted_data" \notin DOMAIN test_case_json1["modules"][n]
    /\ Len(test_case_json1["modules"][n]["execution_steps"][1]["extracted_data"]) = 2

----------------------------------------------------------------------------
(* Repeated calls of the reconciliation routine.                           *)

\* C11: a call of map_extracted_data_to_steps on a module that has no
\* extracted_data key returns the module as it was, in every field, each
\* step's extracted_data included.
C11_NoOpWithoutFlatList ==
    [][(pc = "idle" /\ "extracted_data" \notin DOMAIN mapRet) => mapRet' = mapRet]_vars

\* C11 witness: a module whose flat list [A, B] named only steps of the
\* module was cleared by a first call, and a second call has been made on
\* the cleared module.
C11_Witness ==
    /\ pc = "idle" /\ mapCalls = 2
    /\ Len(StepsOf(mapArg)) = 2 /\ DistinctStepTexts(mapArg)
    /\ "extracted_data" \in DOMAIN mapArg
    /\ Len(ItemsOf(mapArg)) = 2
    /\ ItemsOf(mapArg)[1]["step_name"] = "A" /\ ItemsOf(mapArg)[2]["step_name"] = "B"
    /\ "extracted_data" \notin DOMAIN mapRet
    /\ Len(StepsOf(mapRet)[1]["extracted_data"]) = 1
    /\ "token" \in DOMAIN mapRet

\* Steps j and k of the module are different steps with the same text.
SameText(module, j, k) ==
    j # k /\ StepsOf(module)[j]["step"] = StepsOf(module)[k]["step"]

\* C12: when two different steps of a module have the same text, every
\* flat-list element that names the text is assigned to both steps, and it
\* counts once toward the matched count: the flat list is removed exactly
\* when every element names some step.
C12_DuplicateTextsShareElements ==
    (AfterFirstCall /\ \E j, k \in 1..Len(StepsOf(mapArg)) : SameText(mapArg, j, k)) =>
        /\ \A j, k \in 1..Len(StepsOf(mapArg)) :
              (SameText(mapArg, j, k) /\ ExpectedFor(mapArg, j) # <<>>) =>
                  /\ StepsOf(mapRet)[j]["extracted_data"] = ExpectedFor(mapArg, j)
                  /\ StepsOf(mapRet)[k]["extracted_data"] = ExpectedFor(mapArg, j)
        /\ "extracted_data" \notin DOMAIN mapRet
              <=> \A i \in 1..Len(ItemsOf(mapArg)) : i \in MatchedElements(mapArg)

\* C12 witness: the steps [A, A] with the flat list [A, Z]: both steps hold
\* the A element, and the flat list is kept, since one of its two elements
\* matched although two assignments were made.
C12_Witness ==
    /\ AfterFirstCall
    /\ Len(StepsOf(mapArg)) = 2 /\ SameText(mapArg, 1, 2)
    /\ StepsOf(mapArg)[1]["step"] = "A"
    /\ Len(ItemsOf(mapArg)) = 2
    /\ ItemsOf(mapArg)[1]["step_name"] = "A" /\ ItemsOf(mapArg)[2]["step_name"] = "Z"
    /\ Len(StepsOf(mapRet)[1]["extracted_data"]) = 1
    /\ StepsOf(mapRet)[2]["extracted_data"] = StepsOf(mapRet)[1]["extracted_data"]
    /\ "extracted_data" \in DOMAIN mapRet

\* C13: a step that no flat-list element names is left by the routine
\* exactly as it was: a step without the key stays without it and a list it
\* held is kept; the steps whose extracted_data the routine writes are the
\* steps with at least one match.
C13_UnmatchedStepsUntouched ==
    AfterFirstCall =>
        /\ Len(StepsOf(mapRet)) = Len(StepsOf(mapArg))
        /\ \A k \in 1..Len(StepsOf(mapArg)) :
              IF \E i \in 1..Len(ItemsOf(mapArg)) : Names(mapArg, i, k)
              THEN "extracted_data" \in DOMAIN StepsOf(mapRet)[k]
              ELSE StepsOf(mapRet)[k] = StepsOf(mapArg)[k]

\* C13 witness: of the steps [A, B], A came without the key and B with an
\* earlier element; the flat list [B, Z] names B only: A is still without
\* the key and B holds the new element.
C13_Witness ==
    /\ AfterFirstCall
    /\ Len(StepsOf(mapArg)) = 2
    /\ StepsOf(mapArg)[1] = [step |-> "A"]
    /\ StepsOf(mapArg)[2] = Step("B", <<Projected(Element("A", "//x0"))>>)
    /\ Len(ItemsOf(mapArg)) = 2
    /\ ItemsOf(mapArg)[1] = Element("B", "//x1") /\ ItemsOf(mapArg)[2]["step_name"] = "Z"
    /\ StepsOf(mapRet)[1] = [step |-> "A"]
    /\ StepsOf(mapRet)[2]["extracted_data"] = <<Projected(Element("B", "//x1"))>>

\* C13 second case: a step that held an earlier element and is not named
\* keeps that element.
C13_KeptEarlierData ==
    /\ AfterFirstCall
    /\ Len(StepsOf(mapArg)) = 1
    /\ StepsOf(mapArg)[1] = Step("B", <<Projected(Element("A", "//x0"))>>)
    /\ Len(ItemsOf(mapArg)) = 1 /\ ItemsOf(mapArg)[1]["step_name"] = "A"
    /\ StepsOf(mapRet)[1] = StepsOf(mapArg)[1]

\* C14: whatever the CLI flag, LLM_PROVIDER and llmProvider hold, a
\* resolution that succeeds returns provider "openai" or "ollama", and the
\* key, the base URL, the model and the llm_provider prefix are those of
\* that provider.
C14_ProviderIsOpenAIOrOllama ==
    pc = "configured" =>
        /\ llm_settings["provider"] \in {"openai", "ollama"}
        /\ llm_settings["llm_provider"] =
              llm_settings["provider"] \o "/" \o llm_settings["model"]
        /\ KeyBaseModelByPrecedence

\* C14, the state that refutes it: no --provider, LLM_PROVIDER=azure and
\* OPENAI_API_KEY=sk-test: the resolver returns provider "azure" with the
\* OpenAI key and the prefix "openai/".
C14_UnknownProviderAccepted ==
    /\ pc = "configured"
    /\ args["provider"] = None /\ env["LLM_PROVIDER"] = "azure"
    /\ env["OPENAI_API_KEY"] = "sk-test" /\ args["api_key"] = None
    /\ llm_settings["provider"] = "azure"
    /\ llm_settings["api_key"] = "sk-test"
    /\ llm_settings["llm_provider"] = "openai/" \o llm_settings["model"]

\* C15: a further call of the routine on a module it has already returned
\* changes nothing, whether the flat list was removed or kept: applying the
\* routine twice yields the module that applying it once yields.
C15_SecondCallChangesNothing ==
    [][(pc = "idle" /\ mapCalls >= 1) => mapRet' = mapRet]_vars

\* C15 witness: the steps [A, B] with the flat list [A, Z, A]: the list is
\* kept because of Z, the routine has run twice on the module, and step A
\* holds the two A elements, not four.
C15_Witness ==
    /\ pc = "idle" /\ mapCalls = 2
    /\ Len(StepsOf(mapArg)) = 2
    /\ StepsOf(mapArg)[1]["step"] = "A" /\ StepsOf(mapArg)[2]["step"] = "B"
    /\ Len(ItemsOf(mapArg)) = 3
    /\ ItemsOf(mapArg)[1]["step_name"] = "A" /\ ItemsOf(mapArg)[2]["step_name"] = "Z"
    /\ ItemsOf(mapArg)[3]["step_name"] = "A"
    /\ "extracted_data" \in DOMAIN mapRet
    /\ Len(StepsOf(mapRet)[1]["extracted_data"]) = 2

\* The post-refinement TestCase holds, module by module, the decomposed
\* module alone until its refinement crawl is stored, and from then on the
\* decomposed module with the refinement response and nothing else.
RefinedFromDecomposition(cs) ==
    \A i \in 1..ModuleCount :
        LET m == test_case_json2["modules"][i]
            d == test_case_example["modules"][i]
        IN  IF ~CrawledIn(cs, 2, i) \/ (i = n /\ pc = "store2") THEN m = d
            ELSE IF i = n /\ pc = "map2"
                 THEN m = store_result(d, CrawlIn(cs, 2, i)["response"])
                 ELSE m = Reconciled(d, CrawlIn(cs, 2, i)["response"])

\* In the refined artifact every step of a module whose refinement crawl
\* failed has an empty extracted_data list.
FailedRefinementsEmpty(cs) ==
    "RefinedExtractedData.json" \in DOMAIN files =>
        \A i \in 1..ModuleCount :
            ~CrawlIn(cs, 2, i)["response"]["success"] =>
                \A k \in 1..Len(StepsOf(files["RefinedExtractedData.json"]["modules"][i])) :
                    StepsOf(files["RefinedExtractedData.json"]["modules"][i])[k]
                        ["extracted_data"] = <<>>

\* From the reconciliation of its extraction crawl on, through the
\* refinement pass and the writes, a module of the pre-refinement TestCase
\* is what pass 1 made of it.
PreRefinementKept(cs) ==
    \A i \in 1..ModuleCount :
        (CrawledIn(cs, 1, i) /\ ReconciledAfter(CrawlIn(cs, 1, i))) =>
            test_case_json1["modules"][i] =
                Reconciled(test_case_example["modules"][i], CrawlIn(cs, 1, i)["response"])

\* C16: the post-refinement TestCase is the decomposition plus what the
\* refinement crawl returned, never the pass-1 elements: in the refined
\* artifact a module whose refinement crawl failed has empty extracted_data
\* in every step, whatever its extraction crawl returned; and the
\* pre-refinement TestCase is the same before, during and after the
\* refinement pass of a module.
C16_RefinementStartsFromDecomposition ==
    Decomposed =>
        LET cs == Crawls
        IN  /\ RefinedFromDecomposition(cs)
            /\ FailedRefinementsEmpty(cs)
            /\ PreRefinementKept(cs)

\* C16 witness: the file is done; the extraction crawl of module 1 returned
\* [A, B, A] and its refinement crawl failed: in ExtractedData.json step A
\* of the module holds two elements, in RefinedExtractedData.json both steps
\* of the module are empty.
C16_Witness ==
    /\ pc = "file_done"
    /\ ModuleCount >= 1
    /\ CrawlOf(1, 1)["response"]["success"]
    /\ Len(CrawlOf(1, 1)["response"]["extracted_content"]) = 3
    /\ ~CrawlOf(2, 1)["response"]["success"]
    /\ Len(StepsOf(files["ExtractedData.json"]["modules"][1])[1]["extracted_data"]) = 2
    /\ \A k \in 1..2 :
          StepsOf(files["RefinedExtractedData.json"]["modules"][1])[k]["extracted_data"] = <<>>

====
